---- MODULE Spec2Model ----
\* Site extractors of yt_dlp/extractor: vrt.py, servus.py, manoto.py, jtbc.py, kanal2.py.
\* One external caller runs one operation at a time on an extractor instance;
\* every HTTP request is a step whose response the remote site chooses.
EXTENDS Integers, Sequences, FiniteSets, TLC

VARIABLES
    class_authenticated,  \* VRTIE._authenticated, the class attribute
    inst_authenticated,   \* per VRTIE instance: <<value>> of the instance attribute, or Unset
    op,                   \* the operation in progress, "idle" between operations
    self,                 \* the VRTIE instance the operation runs on (NoInstance otherwise)
    pc,                   \* position inside the operation
    log,                  \* requests, warnings and pauses of the operation, in order
    result,               \* how the operation ended
    login_attempt,        \* _perform_login: the loop counter
    exc,                  \* _perform_login: the exception bound by "except ... as e"
    loc                   \* the operation's other local variables

vars == <<class_authenticated, inst_authenticated, op, self, pc, log, result,
          login_attempt, exc, loc>>

--------------------------------------------------------------------------
\* Bounds of the model

NumInstances == 2
MaxTargets == 2

Instances == 1..NumInstances
NoInstance == 0
Unset == <<>>

--------------------------------------------------------------------------
\* Errors, events and results

Err(type, cause, code, expected, msg) ==
    [type |-> type, cause |-> cause, code |-> code, expected |-> expected,
     msg |-> msg, countries |-> <<>>]

NoError == Err("none", "none", 0, FALSE, <<>>)

\* What a failed request of the HTTP helper raises: ExtractorError, whose cause
\* is the HTTP error (with its status code) or a transport error.
HTTPFailures ==
    { [cause |-> "HTTPError", code |-> 401],
      [cause |-> "HTTPError", code |-> 403],
      [cause |-> "URLError", code |-> 0] }

RequestError(errnote, f) == Err("ExtractorError", f.cause, f.code, FALSE, <<errnote>>)

\* arg: what the request sends that the operation computed (an identifier, a token)
RequestWith(what, arg, out) ==
    [kind |-> "request", what |-> what, arg |-> arg, out |-> out, secs |-> 0]
Request(what, out) == RequestWith(what, "", out)
WarningWith(what, arg) ==
    [kind |-> "warning", what |-> what, arg |-> arg, out |-> "", secs |-> 0]
Warning(what) == WarningWith(what, "")
Sleep(secs) == [kind |-> "sleep", what |-> "", arg |-> "", out |-> "", secs |-> secs]

None == "None"
\* Python's "a or b" on strings and None
Or(a, b) == IF a # None /\ a # "" THEN a ELSE b

OutcomeOf(f) == IF f.cause = "HTTPError" /\ f.code = 401 THEN "http401" ELSE "failed"

NoRecord == [id |-> <<>>]
NoResult == [kind |-> "none", error |-> NoError, record |-> NoRecord]
Raised(e) == [kind |-> "raised", error |-> e, record |-> NoRecord]
Returned(r) == [kind |-> "returned", error |-> NoError, record |-> r]

NoLocals == [none |-> TRUE]

\* A failed download, as the framework's download helpers treat their fatal
\* argument: fatal (the default) raises the error and ends the operation;
\* fatal=False reports it as a warning and the caller goes on at next_pc with
\* next_loc (the helper having returned False, or no formats).
DownloadFailed(fatal, req, e, next_pc, next_loc) ==
    IF fatal
    THEN /\ log' = Append(log, req)
         /\ result' = Raised(e)
         /\ pc' = "done"
         /\ loc' = loc
    ELSE /\ log' = log \o <<req, Warning(e.msg[1])>>
         /\ result' = result
         /\ pc' = next_pc
         /\ loc' = next_loc

--------------------------------------------------------------------------
\* VRTIE: the authentication flag

\* self._authenticated as Python reads it: the instance attribute when the
\* instance has one, the class attribute otherwise.
Authenticated(i) ==
    IF inst_authenticated[i] # Unset THEN inst_authenticated[i][1] ELSE class_authenticated

\* The flag assigned on the class (VRTIE._authenticated = True).
SetAuthenticated_OnClass(i) ==
    /\ class_authenticated' = TRUE
    /\ UNCHANGED inst_authenticated

\* self._authenticated = True: an assignment through self binds the instance attribute.
SetAuthenticated(i) ==
    /\ inst_authenticated' = [inst_authenticated EXCEPT ![i] = <<TRUE>>]
    /\ UNCHANGED class_authenticated

--------------------------------------------------------------------------
\* VRTIE._perform_login

MaxLoginAttempts == 3
RetryPause == 1

\* The locals of _perform_login: whether _gigya_login answered, the answer's
\* errorDetails, and whether it carries the keys the POST data is built from
LoginLocals == [answered |-> FALSE, errorDetails |-> "absent", auth_info_keys |-> FALSE]

StartLogin(i) ==
    /\ op = "idle"
    /\ op' = "vrt_login"
    /\ self' = i
    /\ pc' = "gigya_login"
    /\ log' = <<>>
    /\ result' = NoResult
    /\ login_attempt' = 0
    /\ exc' = NoError
    /\ loc' = LoginLocals
    /\ UNCHANGED <<class_authenticated, inst_authenticated>>

\* errorDetails as the Gigya answer carries it: absent, empty, or a message.
ErrorDetails == { "absent", "empty", "text" }

\* The errorDetails test never taken.
Truthy_Never(errorDetails) == FALSE

Truthy(errorDetails) == errorDetails = "text"

\* auth_info = self._gigya_login(...); the errorDetails test
GigyaLogin ==
    /\ op = "vrt_login" /\ pc = "gigya_login"
    /\ \/ \E f \in HTTPFailures :
            /\ log' = Append(log, Request("gigya", OutcomeOf(f)))
            /\ result' = Raised(RequestError("gigya", f))
            /\ pc' = "done"
            /\ UNCHANGED <<login_attempt, loc>>
       \/ \E d \in ErrorDetails, keys \in BOOLEAN :
            /\ log' = Append(log, Request("gigya", "ok"))
            /\ loc' = [answered |-> TRUE, errorDetails |-> d, auth_info_keys |-> keys]
            /\ IF Truthy(d)
               THEN /\ result' = Raised(Err("ExtractorError", "none", 0, TRUE,
                                            <<"Unable to login: VrtNU said: ", d>>))
                    /\ pc' = "done"
                    /\ UNCHANGED login_attempt
               ELSE /\ login_attempt' = 1
                    /\ pc' = "while"
                    /\ UNCHANGED result
    /\ UNCHANGED <<class_authenticated, inst_authenticated, op, self, exc>>

\* The loop bound off by one.
LoopCondition_OffByOne(attempt) == attempt <= MaxLoginAttempts + 1

LoopCondition(attempt) == attempt <= MaxLoginAttempts

\* while login_attempt <= 3
LoginWhile ==
    /\ op = "vrt_login" /\ pc = "while"
    /\ pc' = IF LoopCondition(login_attempt) THEN "xsrf" ELSE "after_loop"
    /\ UNCHANGED <<class_authenticated, inst_authenticated, op, self, log, result,
                   login_attempt, exc, loc>>

\* self._request_webpage('https://token.vrt.be/vrtnuinitlogin', ...)
RequestXSRF ==
    /\ op = "vrt_login" /\ pc = "xsrf"
    /\ \/ /\ log' = Append(log, Request("xsrf", "ok"))
          /\ pc' = "post_data"
          /\ UNCHANGED exc
       \/ \E f \in HTTPFailures :
            /\ log' = Append(log, Request("xsrf", OutcomeOf(f)))
            /\ exc' = RequestError("Could not get XSRF Token", f)
            /\ pc' = "except"
    /\ UNCHANGED <<class_authenticated, inst_authenticated, op, self, result,
                   login_attempt, loc>>

\* post_data = {...}: auth_info['UID'] and the OIDCXSRF cookie are read; a missing
\* key or cookie raises KeyError / AttributeError, which the except clause
\* (ExtractorError only) does not catch.
BuildPostData ==
    /\ op = "vrt_login" /\ pc = "post_data"
    /\ \E cookie \in BOOLEAN :
         IF ~loc.auth_info_keys
         THEN /\ result' = Raised(Err("KeyError", "none", 0, FALSE, <<"UID">>))
              /\ pc' = "done"
         ELSE IF ~cookie
         THEN /\ result' = Raised(Err("AttributeError", "none", 0, FALSE, <<"value">>))
              /\ pc' = "done"
         ELSE /\ pc' = "post"
              /\ UNCHANGED result
    /\ UNCHANGED <<class_authenticated, inst_authenticated, op, self, log,
                   login_attempt, exc, loc>>

\* self._request_webpage('https://login.vrt.be/perform_login', ...); else: break
PerformLoginPost ==
    /\ op = "vrt_login" /\ pc = "post"
    /\ \/ /\ log' = Append(log, Request("perform_login", "ok"))
          /\ pc' = "after_loop"
          /\ UNCHANGED exc
       \/ \E f \in HTTPFailures :
            /\ log' = Append(log, Request("perform_login", OutcomeOf(f)))
            /\ exc' = RequestError("perform login failed", f)
            /\ pc' = "except"
    /\ UNCHANGED <<class_authenticated, inst_authenticated, op, self, result,
                   login_attempt, loc>>

\* The status code left untested: every HTTP error is retried.
IsAuthFailure_AnyHTTPError(e) == e.cause = "HTTPError"

\* isinstance(e.cause, compat_HTTPError) and e.cause.code == 401
IsAuthFailure(e) == e.cause = "HTTPError" /\ e.code = 401

\* except ExtractorError as e: count, warn and pause on 401, re-raise otherwise
LoginExcept ==
    /\ op = "vrt_login" /\ pc = "except"
    /\ IF IsAuthFailure(exc)
       THEN /\ login_attempt' = login_attempt + 1
            /\ log' = log \o <<Warning("Authentication failed"), Sleep(RetryPause)>>
            /\ pc' = "while"
            /\ UNCHANGED result
       ELSE /\ result' = Raised(exc)
            /\ pc' = "done"
            /\ UNCHANGED <<login_attempt, log>>
    /\ UNCHANGED <<class_authenticated, inst_authenticated, op, self, exc, loc>>

\* self._authenticated = True, the statement after the loop
LoginAfterLoop ==
    /\ op = "vrt_login" /\ pc = "after_loop"
    /\ SetAuthenticated(self)
    /\ result' = Returned(NoRecord)
    /\ pc' = "done"
    /\ UNCHANGED <<op, self, log, login_attempt, exc, loc>>

--------------------------------------------------------------------------
\* VRTIE._real_extract

VideoIds == { "pbs-pub-1$vid-1" }
NuTokens == { "nu-token-1" }

\* target.get('type') as the media-items answer carries it (None: no type)
TargetTypes == { None, "hls", "HLS_AES", "HDS", "MPEG_DASH", "HSS", "PLAIN" }

\* format_type.upper()
Upper(t) == IF t = "hls" THEN "HLS" ELSE t

\* _HLS_ENTRY_PROTOCOLS_MAP
HLS_ENTRY_PROTOCOLS == { "HLS", "HLS_AES" }

\* targetUrls entries: url_ok says whether url_or_none(target.get('url')) is a URL
Targets ==
    [url_ok : {TRUE}, type : TargetTypes] \cup { [url_ok |-> FALSE, type |-> "PLAIN"] }

TargetLists == UNION { [1..n -> Targets] : n \in 0..MaxTargets }

Codes == { None, "AUTHENTICATION_REQUIRED", "INVALID_LOCATION", "NOT_FOUND" }
Messages == { None, "", "Video not found" }

\* The media-items answer: an error answer (no title) with code and message, or
\* a video (title) with its targetUrls (has_targets: the key is there).
ErrorInfos ==
    [has_title : {FALSE}, code : Codes, message : Messages,
     has_targets : {FALSE}, targetUrls : {<<>>}]
VideoInfos ==
    [has_title : {TRUE}, code : {None}, message : {None},
     has_targets : BOOLEAN, targetUrls : TargetLists]
NoVideoInfo ==
    [has_title |-> FALSE, code |-> None, message |-> None,
     has_targets |-> FALSE, targetUrls |-> <<>>]

VRTLocals ==
    [video_id |-> "", vrtnutoken |-> "", answered |-> FALSE, video_info |-> NoVideoInfo,
     targets |-> <<>>, formats |-> <<>>]

\* The token refreshed whatever the flag says.
RefreshNeeded_Always(i) == TRUE

\* if self._authenticated
RefreshNeeded(i) == Authenticated(i)

StartVRTExtract(i) ==
    /\ op = "idle"
    /\ op' = "vrt_extract"
    /\ self' = i
    /\ pc' = "asset_json"
    /\ log' = <<>>
    /\ result' = NoResult
    /\ loc' = VRTLocals
    /\ UNCHANGED <<class_authenticated, inst_authenticated, login_attempt, exc>>

\* The asset JSON download and the field reads up to "if self._authenticated";
\* a model JSON without the fields read by chained .get() raises AttributeError.
DownloadAssetJSON ==
    /\ op = "vrt_extract" /\ pc = "asset_json"
    /\ \/ \E f \in HTTPFailures :
            /\ log' = Append(log, Request("asset_json", OutcomeOf(f)))
            /\ result' = Raised(RequestError("Unable to download asset JSON", f))
            /\ pc' = "done"
            /\ UNCHANGED loc
       \/ \E wellformed \in BOOLEAN, id \in VideoIds :
            /\ log' = Append(log, Request("asset_json", "ok"))
            /\ IF ~wellformed
               THEN /\ result' = Raised(Err("AttributeError", "none", 0, FALSE, <<"get">>))
                    /\ pc' = "done"
                    /\ UNCHANGED loc
               ELSE /\ loc' = [loc EXCEPT !.video_id = id, !.vrtnutoken = ""]
                    /\ pc' = IF RefreshNeeded(self) THEN "refreshtoken" ELSE "tokens"
                    /\ UNCHANGED result
    /\ UNCHANGED <<class_authenticated, inst_authenticated, op, self, login_attempt, exc>>

\* vrtnutoken = self._download_json('https://token.vrt.be/refreshtoken', ...)['vrtnutoken']
RefreshToken ==
    /\ op = "vrt_extract" /\ pc = "refreshtoken"
    /\ \/ \E f \in HTTPFailures :
            /\ log' = Append(log, Request("refreshtoken", OutcomeOf(f)))
            /\ result' = Raised(RequestError("refreshtoken failed", f))
            /\ pc' = "done"
            /\ UNCHANGED loc
       \/ /\ log' = Append(log, Request("refreshtoken", "ok"))
          /\ \/ /\ result' = Raised(Err("KeyError", "none", 0, FALSE, <<"vrtnutoken">>))
                /\ pc' = "done"
                /\ UNCHANGED loc
             \/ \E t \in NuTokens :
                  /\ loc' = [loc EXCEPT !.vrtnutoken = t]
                  /\ pc' = "tokens"
                  /\ UNCHANGED result
    /\ UNCHANGED <<class_authenticated, inst_authenticated, op, self, login_attempt, exc>>

\* vrtPlayerToken = self._download_json('.../tokens', data={'identityToken': vrtnutoken})['vrtPlayerToken']
PlayerToken ==
    /\ op = "vrt_extract" /\ pc = "tokens"
    /\ \/ \E f \in HTTPFailures :
            /\ log' = Append(log, RequestWith("tokens", loc.vrtnutoken, OutcomeOf(f)))
            /\ result' = Raised(RequestError("Unable to download JSON metadata", f))
            /\ pc' = "done"
       \/ /\ log' = Append(log, RequestWith("tokens", loc.vrtnutoken, "ok"))
          /\ \/ /\ result' = Raised(Err("KeyError", "none", 0, FALSE, <<"vrtPlayerToken">>))
                /\ pc' = "done"
             \/ /\ pc' = "media_items"
                /\ UNCHANGED result
    /\ UNCHANGED <<class_authenticated, inst_authenticated, op, self, login_attempt, exc, loc>>

\* self.raise_login_required(): an expected ExtractorError asking for a login
LoginRequired == Err("ExtractorError", "none", 0, TRUE, <<"login_required">>)

\* self.raise_geo_restricted(countries=...): the geo-restriction error with its countries
GeoRestricted(countries) ==
    [Err("GeoRestrictedError", "none", 0, TRUE, <<"geo_restricted">>)
        EXCEPT !.countries = countries]

\* The geo-restriction branch missing, and "code or message" for the message.
NoTitleError_CodeFirst(video_info) ==
    IF video_info.code = "AUTHENTICATION_REQUIRED" THEN LoginRequired
    ELSE Err("ExtractorError", "none", 0, TRUE, <<Or(video_info.code, video_info.message)>>)

\* if 'title' not in video_info: the error the answer's code is mapped to
NoTitleError(video_info) ==
    IF video_info.code = "AUTHENTICATION_REQUIRED" THEN LoginRequired
    ELSE IF video_info.code = "INVALID_LOCATION" THEN GeoRestricted(<<"BE">>)
    ELSE Err("ExtractorError", "none", 0, TRUE, <<Or(video_info.message, video_info.code)>>)

\* video_info = self._download_json('.../media-items/<video_id>', expected_status=400)
\* and the title test; video_info['targetUrls'] opens the loop over the targets.
MediaItems ==
    /\ op = "vrt_extract" /\ pc = "media_items"
    /\ \/ \E f \in HTTPFailures :
            /\ log' = Append(log, RequestWith("media_items", loc.video_id, OutcomeOf(f)))
            /\ result' = Raised(RequestError("Unable to download JSON metadata", f))
            /\ pc' = "done"
            /\ UNCHANGED loc
       \/ \E info \in ErrorInfos \cup VideoInfos :
            /\ log' = Append(log, RequestWith("media_items", loc.video_id, "ok"))
            /\ IF ~info.has_title
               THEN /\ result' = Raised(NoTitleError(info))
                    /\ pc' = "done"
                    /\ loc' = [loc EXCEPT !.answered = TRUE, !.video_info = info]
               ELSE IF ~info.has_targets
               THEN /\ result' = Raised(Err("KeyError", "none", 0, FALSE, <<"targetUrls">>))
                    /\ pc' = "done"
                    /\ loc' = [loc EXCEPT !.answered = TRUE, !.video_info = info]
               ELSE /\ loc' = [loc EXCEPT !.answered = TRUE, !.video_info = info,
                                          !.targets = info.targetUrls]
                    /\ pc' = "targets"
                    /\ UNCHANGED result
    /\ UNCHANGED <<class_authenticated, inst_authenticated, op, self, login_attempt, exc>>

ManifestTypes == HLS_ENTRY_PROTOCOLS \cup { "HDS", "MPEG_DASH", "HSS" }

\* The manifest helpers called with the default, fatal.
VRTManifestFatal_Default == TRUE

\* fatal= of the four manifest helpers the target loop calls: fatal=False
VRTManifestFatal == FALSE

\* One pass of "for target in video_info['targetUrls']"
VRTTarget ==
    /\ op = "vrt_extract" /\ pc = "targets" /\ loc.targets # <<>>
    /\ LET target == Head(loc.targets)
           rest == Tail(loc.targets)
           format_type == Upper(target.type)
       IN IF ~target.url_ok \/ target.type = None
          THEN /\ loc' = [loc EXCEPT !.targets = rest]
               /\ UNCHANGED <<log, result, pc>>
          ELSE IF format_type \in ManifestTypes
          THEN \/ /\ log' = Append(log, RequestWith("manifest", format_type, "ok"))
                  /\ loc' = [loc EXCEPT !.targets = rest,
                                        !.formats = Append(@, format_type)]
                  /\ UNCHANGED <<result, pc>>
               \/ \E f \in HTTPFailures :
                    DownloadFailed(VRTManifestFatal,
                                   RequestWith("manifest", format_type, OutcomeOf(f)),
                                   RequestError("Failed to download manifest", f),
                                   "targets", [loc EXCEPT !.targets = rest])
          ELSE /\ loc' = [loc EXCEPT !.targets = rest,
                                     !.formats = Append(@, format_type)]
               /\ UNCHANGED <<log, result, pc>>
    /\ UNCHANGED <<class_authenticated, inst_authenticated, op, self, login_attempt, exc>>

\* The loop is over: the record is returned
VRTReturn ==
    /\ op = "vrt_extract" /\ pc = "targets" /\ loc.targets = <<>>
    /\ result' = Returned([id |-> loc.video_id, formats |-> loc.formats, channel |-> "VRT"])
    /\ pc' = "done"
    /\ UNCHANGED <<class_authenticated, inst_authenticated, op, self, log,
                   login_attempt, exc, loc>>

--------------------------------------------------------------------------
\* JTBCIE._real_extract

MaxStreams == 2

Digits == { "0", "1", "2", "3", "4", "5", "6", "7", "8", "9" }

\* The sample URLs of _TESTS, split at "/" after the scheme
JTBCUrls ==
    { <<"tv.jtbc.co.kr", "replay", "pr10011629", "pm10067930", "ep20216321", "view">>,
      <<"vod.jtbc.co.kr", "player", "clip", "vo10721270">> }

\* self._match_id(url): the id group of _VALID_URL, the ep.../vo... segment
\* after player/(program|clip) or after (replay|trailer|clip)/pr.../pm...
JTBCMatchId(url) == IF url[1] = "vod.jtbc.co.kr" THEN url[4] ELSE url[5]

\* data-vod="(VO\d+)" as found in the page, or not found
FileIds == { <<>>, <<"VO10721270">> }

\* broadcastDate values of vodDetail, as strings of characters
DateYears == { <<"2", "0", "2", "3">>, <<"2", "0", "x", "3">>, <<"2", "3">> }
DateSeps == { <<>>, <<".">> }
DateMonths == { <<"1", "0">> }
DateDays == { <<"0", "8">>, <<"8">> }
DateTails == { <<>>, <<"1">> }
BroadcastDates ==
    { y \o s1 \o m \o s2 \o d \o t :
        y \in DateYears, s1 \in DateSeps, m \in DateMonths,
        s2 \in DateSeps, d \in DateDays, t \in DateTails }

\* The metadata answer: ok is FALSE when the download failed (the helper
\* returned False); broadcastDate is <<>> when vodDetail has none, else <<string>>.
Metadatas ==
    [ok : {TRUE}, broadcastDate : { <<>> } \cup { <<b>> : b \in BroadcastDates }]
NoMetadata == [ok |-> FALSE, broadcastDate |-> <<>>]

\* x.replace('.', '')
RECURSIVE RemoveDots(_)
RemoveDots(x) ==
    IF x = <<>> THEN <<>>
    ELSE IF Head(x) = "." THEN RemoveDots(Tail(x))
    ELSE <<Head(x)>> \o RemoveDots(Tail(x))

\* re.match(r'\d{n}', x): whether n digits open x
RECURSIVE MatchesDigits(_, _)
MatchesDigits(x, n) ==
    IF n = 0 THEN TRUE
    ELSE IF x = <<>> THEN FALSE
    ELSE Head(x) \in Digits /\ MatchesDigits(Tail(x), n - 1)

DateDigits == 8

\* The prefix cut before the dots are removed.
ReleaseDate_CutFirst(broadcastDate) ==
    IF broadcastDate = <<>> \/ Len(broadcastDate[1]) < DateDigits THEN <<>>
    ELSE LET x == RemoveDots(SubSeq(broadcastDate[1], 1, DateDigits))
         IN IF MatchesDigits(x, Len(x)) THEN <<x>> ELSE <<>>

\* ('broadcastDate', {lambda x: re.match(r'\d{8}', x.replace('.', ''))}, 0):
\* group 0 of the match, nothing when there is no broadcastDate or no match
ReleaseDate(broadcastDate) ==
    IF broadcastDate = <<>> THEN <<>>
    ELSE LET x == RemoveDots(broadcastDate[1])
         IN IF MatchesDigits(x, DateDigits) THEN <<SubSeq(x, 1, DateDigits)>> ELSE <<>>

\* stream['file'] values of sources.HLS ("" is a stream without a file)
StreamFiles == { "", "/playlist_pd1.m3u8", "/other.m3u8" }
StreamLists == UNION { [1..n -> StreamFiles] : n \in 0..MaxStreams }

\* re.sub(r'/playlist(?:_pd\d+)?\.m3u8', '/index.m3u8', stream['file'])
M3u8Url(file) == IF file = "/playlist_pd1.m3u8" THEN "/index.m3u8" ELSE file

\* lambda _, v: v['file'] keeps the streams whose file is not empty
WithFile(streams) == SelectSeq(streams, LAMBDA f : f # "")

\* fatal= of the three downloads: the page and the playback data by default,
\* the metadata and the HLS manifests fatal=False
JTBCMetadataFatal == FALSE
JTBCManifestFatal == FALSE

JTBCLocals ==
    [url |-> <<>>, video_id |-> "", file_id |-> "", metadata |-> NoMetadata,
     streams |-> <<>>, formats |-> <<>>]

StartJTBC(url) ==
    /\ op = "idle"
    /\ op' = "jtbc"
    /\ self' = NoInstance
    /\ pc' = "webpage"
    /\ log' = <<>>
    /\ result' = NoResult
    /\ loc' = [JTBCLocals EXCEPT !.url = url, !.video_id = JTBCMatchId(url)]
    /\ UNCHANGED <<class_authenticated, inst_authenticated, login_attempt, exc>>

\* webpage = self._download_webpage(url, video_id); file_id = self._search_regex(...)
JTBCWebpage ==
    /\ op = "jtbc" /\ pc = "webpage"
    /\ \/ \E f \in HTTPFailures :
            DownloadFailed(TRUE, RequestWith("webpage", loc.video_id, OutcomeOf(f)),
                           RequestError("Unable to download webpage", f), "done", loc)
       \/ \E found \in FileIds :
            /\ log' = Append(log, RequestWith("webpage", loc.video_id, "ok"))
            /\ IF found = <<>>
               THEN /\ result' = Raised(Err("ExtractorError", "none", 0, FALSE,
                                            <<"Unable to extract vod id">>))
                    /\ pc' = "done"
                    /\ UNCHANGED loc
               ELSE /\ loc' = [loc EXCEPT !.file_id = found[1]]
                    /\ pc' = "metadata"
                    /\ UNCHANGED result
    /\ UNCHANGED <<class_authenticated, inst_authenticated, op, self, login_attempt, exc>>

\* metadata = self._download_json('.../v1/vod/detail?vodFileId=<file_id>', fatal=False)
JTBCMetadata ==
    /\ op = "jtbc" /\ pc = "metadata"
    /\ \/ \E f \in HTTPFailures :
            DownloadFailed(JTBCMetadataFatal,
                           RequestWith("metadata", loc.file_id, OutcomeOf(f)),
                           RequestError("Unable to download JSON metadata", f),
                           "playback", [loc EXCEPT !.metadata = NoMetadata])
       \/ \E m \in Metadatas :
            /\ log' = Append(log, RequestWith("metadata", loc.file_id, "ok"))
            /\ loc' = [loc EXCEPT !.metadata = m]
            /\ pc' = "playback"
            /\ UNCHANGED result
    /\ UNCHANGED <<class_authenticated, inst_authenticated, op, self, login_attempt, exc>>

\* playback_data = self._download_json('https://api.jtbc.co.kr/vod/<file_id>', ...)
JTBCPlayback ==
    /\ op = "jtbc" /\ pc = "playback"
    /\ \/ \E f \in HTTPFailures :
            DownloadFailed(TRUE, RequestWith("playback", loc.file_id, OutcomeOf(f)),
                           RequestError("Unable to download JSON metadata", f), "done", loc)
       \/ \E hls \in StreamLists :
            /\ log' = Append(log, RequestWith("playback", loc.file_id, "ok"))
            /\ loc' = [loc EXCEPT !.streams = WithFile(hls)]
            /\ pc' = "streams"
            /\ UNCHANGED result
    /\ UNCHANGED <<class_authenticated, inst_authenticated, op, self, login_attempt, exc>>

\* One pass of the loop over the HLS streams:
\* formats.extend(self._extract_m3u8_formats(m3u8_url, video_id, fatal=False))
JTBCStream ==
    /\ op = "jtbc" /\ pc = "streams" /\ loc.streams # <<>>
    /\ LET m3u8_url == M3u8Url(Head(loc.streams))
           rest == Tail(loc.streams)
       IN \/ /\ log' = Append(log, RequestWith("manifest", m3u8_url, "ok"))
             /\ loc' = [loc EXCEPT !.streams = rest, !.formats = Append(@, m3u8_url)]
             /\ UNCHANGED <<result, pc>>
          \/ \E f \in HTTPFailures :
               DownloadFailed(JTBCManifestFatal,
                              RequestWith("manifest", m3u8_url, OutcomeOf(f)),
                              RequestError("Failed to download m3u8 information", f),
                              "streams", [loc EXCEPT !.streams = rest])
    /\ UNCHANGED <<class_authenticated, inst_authenticated, op, self, login_attempt, exc>>

\* The returned dict: 'id': video_id, the vodDetail fields that have a value
\* (release_date among them), 'formats'
JTBCRecord(video_id, file_id, metadata, formats) ==
    LET release_date == ReleaseDate(metadata.broadcastDate)
    IN IF release_date = <<>>
       THEN [id |-> video_id, formats |-> formats]
       ELSE [id |-> video_id, formats |-> formats, release_date |-> release_date[1]]

JTBCReturn ==
    /\ op = "jtbc" /\ pc = "streams" /\ loc.streams = <<>>
    /\ result' = Returned(JTBCRecord(loc.video_id, loc.file_id, loc.metadata, loc.formats))
    /\ pc' = "done"
    /\ UNCHANGED <<class_authenticated, inst_authenticated, op, self, log,
                   login_attempt, exc, loc>>

--------------------------------------------------------------------------
\* ServusIE._real_extract

MaxErrors == 2

\* The id group of _VALID_URL, as strings of characters: [aA]{2}-?\w+
ServusUrlIds ==
    { <<"a", "a", "-", "2", "b">>, <<"A", "A", "-", "2", "B">>, <<"a", "A", "2", "c">> }

UpperChar(c) ==
    IF c = "a" THEN "A" ELSE IF c = "b" THEN "B" ELSE IF c = "c" THEN "C" ELSE c

\* The identifier used as matched, without .upper().
UpperStr_AsMatched(x) == x

\* str.upper()
UpperStr(x) == [i \in DOMAIN x |-> UpperChar(x[i])]

PlayabilityErrors == { "FSK_BLOCKED", "NOT_YET_AVAILABLE", "GEO_BLOCKED" }
ErrorLists == UNION { [1..n -> PlayabilityErrors] : n \in 0..MaxErrors }

\* The player API answer. has_errors: the key playabilityErrors is there;
\* has_details: playabilityErrorDetails.FSK_BLOCKED is there; the hours and
\* currentSunrise are None when the answer has none.
PlayableVideos ==
    [has_videoUrl : {TRUE}, has_errors : {FALSE}, playabilityErrors : {<<>>},
     has_details : {FALSE}, minEveningHour : {None}, maxMorningHour : {None},
     currentSunrise : {None}, description : {None, "short"}]
BlockedVideos ==
    [has_videoUrl : {FALSE}, has_errors : BOOLEAN, playabilityErrors : ErrorLists,
     has_details : BOOLEAN, minEveningHour : {None, "20"}, maxMorningHour : {None, "6"},
     currentSunrise : {None, "2023-01-01"}, description : {None}]
ServusVideos ==
    PlayableVideos \cup { v \in BlockedVideos : ~v.has_errors => v.playabilityErrors = <<>> }

\* Whether the module binds the name ExtractorError: its imports are
\* InfoExtractor, traverse_obj, float_or_none, int_or_none, unified_timestamp.
ServusImportsExtractorError == FALSE

\* raise ExtractorError(f'Only playable from {min}:00 to {max}:00', expected=True):
\* the name ExtractorError is looked up first, then the message is formatted
FSKBlockedError(details_min, details_max) ==
    IF ~ServusImportsExtractorError
    THEN Err("NameError", "none", 0, FALSE, <<"ExtractorError">>)
    ELSE IF details_max = None
    THEN Err("KeyError", "none", 0, FALSE, <<"maxMorningHour">>)
    ELSE Err("ExtractorError", "none", 0, TRUE,
             <<"Only playable from ", details_min, ":00 to ", details_max, ":00">>)

\* The loop of _report_errors over the playability errors: the warnings it
\* reports and (at most one) error it raises
RECURSIVE ReportLoop(_, _, _)
ReportLoop(video, errors, warnings) ==
    IF errors = <<>> THEN [warnings |-> warnings, raised |-> <<>>]
    ELSE LET error == Head(errors)
         IN IF error = "FSK_BLOCKED"
            THEN IF ~video.has_details
                 THEN [warnings |-> warnings,
                       raised |-> <<Err("KeyError", "none", 0, FALSE,
                                        <<"playabilityErrorDetails">>)>>]
                 ELSE IF video.minEveningHour # None
                 THEN [warnings |-> warnings,
                       raised |-> <<FSKBlockedError(video.minEveningHour,
                                                    video.maxMorningHour)>>]
                 ELSE ReportLoop(video, Tail(errors), warnings)
            ELSE IF error = "NOT_YET_AVAILABLE"
            THEN IF video.currentSunrise = None
                 THEN [warnings |-> warnings,
                       raised |-> <<Err("TypeError", "none", 0, FALSE, <<"str + None">>)>>]
                 ELSE ReportLoop(video, Tail(errors),
                                 Append(warnings, WarningWith("Only available after ",
                                                              video.currentSunrise)))
            ELSE ReportLoop(video, Tail(errors),
                            Append(warnings, WarningWith("Not playable: ", error)))

\* _report_errors(video)
ReportErrors(video) ==
    IF ~video.has_errors
    THEN [warnings |-> <<Warning("No videoUrl, and also no information about errors")>>,
          raised |-> <<Err("TypeError", "none", 0, FALSE, <<"NoneType is not iterable">>)>>]
    ELSE ReportLoop(video, video.playabilityErrors, <<>>)

ServusDescriptionFatal == FALSE

ServusLocals ==
    [url_id |-> <<>>, video_id |-> <<>>, answered |-> FALSE,
     video |-> CHOOSE v \in PlayableVideos : TRUE, description |-> None]

StartServus(url_id) ==
    /\ op = "idle"
    /\ op' = "servus"
    /\ self' = NoInstance
    /\ pc' = "video_json"
    /\ log' = <<>>
    /\ result' = NoResult
    /\ loc' = [ServusLocals EXCEPT !.url_id = url_id, !.video_id = UpperStr(url_id)]
    /\ UNCHANGED <<class_authenticated, inst_authenticated, login_attempt, exc>>

\* video = self._download_json(...videoId=<video_id>); without videoUrl,
\* _report_errors(video) and then video['videoUrl']
ServusVideoJSON ==
    /\ op = "servus" /\ pc = "video_json"
    /\ \/ \E f \in HTTPFailures :
            DownloadFailed(TRUE, RequestWith("video_json", loc.video_id, OutcomeOf(f)),
                           RequestError("Unable to download JSON metadata", f), "done", loc)
       \/ \E video \in ServusVideos :
            /\ loc' = [loc EXCEPT !.answered = TRUE, !.video = video]
            /\ IF video.has_videoUrl
               THEN /\ log' = Append(log, RequestWith("video_json", loc.video_id, "ok"))
                    /\ pc' = "m3u8"
                    /\ UNCHANGED result
               ELSE LET reported == ReportErrors(video)
                    IN /\ log' = Append(log, RequestWith("video_json", loc.video_id, "ok"))
                                   \o reported.warnings
                       /\ result' = IF reported.raised # <<>>
                                    THEN Raised(reported.raised[1])
                                    ELSE Raised(Err("KeyError", "none", 0, FALSE,
                                                    <<"videoUrl">>))
                       /\ pc' = "done"
    /\ UNCHANGED <<class_authenticated, inst_authenticated, op, self, login_attempt, exc>>

\* self._extract_m3u8_formats_and_subtitles(video['videoUrl'], video_id, 'mp4', m3u8_id='hls')
ServusManifest ==
    /\ op = "servus" /\ pc = "m3u8"
    /\ \/ \E f \in HTTPFailures :
            DownloadFailed(TRUE, RequestWith("manifest", "hls", OutcomeOf(f)),
                           RequestError("Failed to download m3u8 information", f),
                           "done", loc)
       \/ /\ log' = Append(log, RequestWith("manifest", "hls", "ok"))
          /\ pc' = "description"
          /\ UNCHANGED <<result, loc>>
    /\ UNCHANGED <<class_authenticated, inst_authenticated, op, self, login_attempt, exc>>

\* _get_description(video_id): the download with fatal=False, then
\* traverse_obj(info, 'stv_long_description', 'stv_short_description')
ServusGetDescription ==
    /\ op = "servus" /\ pc = "description"
    /\ \/ \E f \in HTTPFailures :
            DownloadFailed(ServusDescriptionFatal,
                           RequestWith("description", loc.video_id, OutcomeOf(f)),
                           RequestError("Unable to download JSON metadata", f),
                           "return", [loc EXCEPT !.description = None])
       \/ \E d \in { None, "long" } :
            /\ log' = Append(log, RequestWith("description", loc.video_id, "ok"))
            /\ loc' = [loc EXCEPT !.description = d]
            /\ pc' = "return"
            /\ UNCHANGED result
    /\ UNCHANGED <<class_authenticated, inst_authenticated, op, self, login_attempt, exc>>

\* The returned dict
ServusReturn ==
    /\ op = "servus" /\ pc = "return"
    /\ result' = Returned([id |-> loc.video_id, formats |-> <<"hls">>,
                           description |-> Or(loc.description, loc.video.description)])
    /\ pc' = "done"
    /\ UNCHANGED <<class_authenticated, inst_authenticated, op, self, log,
                   login_attempt, exc, loc>>

--------------------------------------------------------------------------
\* ManotoTVIE._real_extract and ManotoTVLiveIE._real_extract

ManotoIds == { "12576" }

\* details of the episode answer; None: the key is missing
ManotoDetails ==
    [analyticsSeasonNumber : {None, "3", "x"}, episodeNumber : {None, "7", "x"},
     durationInMinutes : {None, "90"}]
NoDetails ==
    [analyticsSeasonNumber |-> None, episodeNumber |-> None, durationInMinutes |-> None]

\* ManotoTVIE with ext = 'mp4' assigned, as in ManotoTVLiveIE.
ManotoExtAssigned_Fixed == TRUE

\* Whether ext is assigned before self._extract_m3u8_formats(video_url, video_id, ext)
\* reads it: ManotoTVIE never assigns it, ManotoTVLiveIE has ext = 'mp4'.
ManotoExtAssigned == FALSE
ManotoLiveExtAssigned == TRUE

ManotoLocals == [video_id |-> "", answered |-> FALSE, details |-> NoDetails]

StartManoto(id) ==
    /\ op = "idle"
    /\ op' = "manoto"
    /\ self' = NoInstance
    /\ pc' = "episode_json"
    /\ log' = <<>>
    /\ result' = NoResult
    /\ loc' = [ManotoLocals EXCEPT !.video_id = id]
    /\ UNCHANGED <<class_authenticated, inst_authenticated, login_attempt, exc>>

\* episode_json = self._download_json(...episodedetails?id=<video_id>) and the
\* field reads up to thumbnail: .isdigit() and * 60 on a missing field raise
ManotoEpisodeJSON ==
    /\ op = "manoto" /\ pc = "episode_json"
    /\ \/ \E f \in HTTPFailures :
            DownloadFailed(TRUE, RequestWith("episode_json", loc.video_id, OutcomeOf(f)),
                           RequestError("Unable to download JSON metadata", f), "done", loc)
       \/ \E details \in ManotoDetails :
            /\ log' = Append(log, RequestWith("episode_json", loc.video_id, "ok"))
            /\ loc' = [loc EXCEPT !.answered = TRUE, !.details = details]
            /\ IF details.analyticsSeasonNumber = None \/ details.episodeNumber = None
               THEN /\ result' = Raised(Err("AttributeError", "none", 0, FALSE, <<"isdigit">>))
                    /\ pc' = "done"
               ELSE IF details.durationInMinutes = None
               THEN /\ result' = Raised(Err("TypeError", "none", 0, FALSE, <<"None * 60">>))
                    /\ pc' = "done"
               ELSE /\ pc' = "formats"
                    /\ UNCHANGED result
    /\ UNCHANGED <<class_authenticated, inst_authenticated, op, self, login_attempt, exc>>

\* formats = self._extract_m3u8_formats(video_url, video_id, ext) and the return:
\* the arguments are evaluated before the call, an unassigned ext raises NameError
ExtractM3u8Formats(ext_assigned) ==
    IF ~ext_assigned
    THEN /\ result' = Raised(Err("NameError", "none", 0, FALSE, <<"ext">>))
         /\ pc' = "done"
         /\ UNCHANGED <<log, loc>>
    ELSE \/ \E f \in HTTPFailures :
              DownloadFailed(TRUE, RequestWith("manifest", "mp4", OutcomeOf(f)),
                             RequestError("Failed to download m3u8 information", f),
                             "done", loc)
         \/ /\ log' = Append(log, RequestWith("manifest", "mp4", "ok"))
            /\ result' = Returned([id |-> loc.video_id, formats |-> <<"mp4">>, ext |-> "mp4"])
            /\ pc' = "done"
            /\ UNCHANGED loc

ManotoFormats ==
    /\ op = "manoto" /\ pc = "formats"
    /\ ExtractM3u8Formats(ManotoExtAssigned)
    /\ UNCHANGED <<class_authenticated, inst_authenticated, op, self, login_attempt, exc>>

StartManotoLive ==
    /\ op = "idle"
    /\ op' = "manoto_live"
    /\ self' = NoInstance
    /\ pc' = "live_json"
    /\ log' = <<>>
    /\ result' = NoResult
    /\ loc' = [ManotoLocals EXCEPT !.video_id = "live"]
    /\ UNCHANGED <<class_authenticated, inst_authenticated, login_attempt, exc>>

\* json = self._download_json('.../livemodule/details', video_id)
ManotoLiveJSON ==
    /\ op = "manoto_live" /\ pc = "live_json"
    /\ \/ \E f \in HTTPFailures :
            DownloadFailed(TRUE, RequestWith("live_json", loc.video_id, OutcomeOf(f)),
                           RequestError("Unable to download JSON metadata", f), "done", loc)
       \/ /\ log' = Append(log, RequestWith("live_json", loc.video_id, "ok"))
          /\ loc' = [loc EXCEPT !.answered = TRUE]
          /\ pc' = "formats"
          /\ UNCHANGED result
    /\ UNCHANGED <<class_authenticated, inst_authenticated, op, self, login_attempt, exc>>

ManotoLiveFormats ==
    /\ op = "manoto_live" /\ pc = "formats"
    /\ ExtractM3u8Formats(ManotoLiveExtAssigned)
    /\ UNCHANGED <<class_authenticated, inst_authenticated, op, self, login_attempt, exc>>

--------------------------------------------------------------------------
\* ManotoTVShowIE._real_extract and JTBCProgramIE._real_extract: playlists

PlaylistLocals == [video_id |-> "", entries |-> <<>>]

StartManotoShow(id) ==
    /\ op = "idle"
    /\ op' = "manoto_show"
    /\ self' = NoInstance
    /\ pc' = "show_json"
    /\ log' = <<>>
    /\ result' = NoResult
    /\ loc' = [PlaylistLocals EXCEPT !.video_id = id]
    /\ UNCHANGED <<class_authenticated, inst_authenticated, login_attempt, exc>>

\* The three downloads, one after the other: show details, series list
\* (whose first entry names the playlist; an empty list raises IndexError),
\* episode list; then the playlist result.
ManotoShowDownload ==
    /\ op = "manoto_show" /\ pc \in {"show_json", "series_json", "playlist_json"}
    /\ \/ \E f \in HTTPFailures :
            DownloadFailed(TRUE, RequestWith(pc, loc.video_id, OutcomeOf(f)),
                           RequestError("Unable to download JSON metadata", f), "done", loc)
       \/ /\ pc = "show_json"
          /\ log' = Append(log, RequestWith(pc, loc.video_id, "ok"))
          /\ pc' = "series_json"
          /\ UNCHANGED <<result, loc>>
       \/ /\ pc = "series_json"
          /\ log' = Append(log, RequestWith(pc, loc.video_id, "ok"))
          /\ \/ /\ result' = Raised(Err("IndexError", "none", 0, FALSE, <<"list">>))
                /\ pc' = "done"
             \/ /\ pc' = "playlist_json"
                /\ UNCHANGED result
          /\ UNCHANGED loc
       \/ /\ pc = "playlist_json"
          /\ log' = Append(log, RequestWith(pc, loc.video_id, "ok"))
          /\ \E n \in 0..1 :
               result' = Returned([id |-> loc.video_id, type |-> "playlist",
                                   entries |-> [k \in 1..n |-> "12576"]])
          /\ pc' = "done"
          /\ UNCHANGED loc
    /\ UNCHANGED <<class_authenticated, inst_authenticated, op, self, login_attempt, exc>>

JTBCProgramIds == { "pr10010392" }

StartJTBCProgram(id) ==
    /\ op = "idle"
    /\ op' = "jtbc_program"
    /\ self' = NoInstance
    /\ pc' = "vod_list"
    /\ log' = <<>>
    /\ result' = NoResult
    /\ loc' = [PlaylistLocals EXCEPT !.video_id = id]
    /\ UNCHANGED <<class_authenticated, inst_authenticated, login_attempt, exc>>

\* vod_list = self._download_json(...programReplayVodList...) and the playlist result
JTBCProgramDownload ==
    /\ op = "jtbc_program" /\ pc = "vod_list"
    /\ \/ \E f \in HTTPFailures :
            DownloadFailed(TRUE, RequestWith("vod_list", loc.video_id, OutcomeOf(f)),
                           RequestError("Unable to download JSON metadata", f), "done", loc)
       \/ /\ log' = Append(log, RequestWith("vod_list", loc.video_id, "ok"))
          /\ \E n \in 0..1 :
               result' = Returned([id |-> loc.video_id, type |-> "playlist",
                                   entries |-> [k \in 1..n |-> "ep20216321"]])
          /\ pc' = "done"
          /\ UNCHANGED loc
    /\ UNCHANGED <<class_authenticated, inst_authenticated, op, self, login_attempt, exc>>

--------------------------------------------------------------------------
\* Kanal2IE._real_extract

Kanal2Ids == { "40792" }

\* stream.get('file') of data.streams ("" : a stream without a file; the last
\* one is a path, not a URL)
Kanal2Files == { "", "https://f1?a=1", "/f2?a=1" }
Kanal2StreamLists == UNION { [1..n -> Kanal2Files] : n \in 0..MaxStreams }

\* info.subtitle: without a date, with a date, with a date no calendar has
Kanal2Subtitles == { "Osa 53", "Osa 53  (05.08.2016 20:00)", "Osa 53  (45.08.2016 20:00)" }

\* The playlist answer (has_info: playlist.get('info') is a dict with title and subtitle)
Kanal2Playlists ==
    [has_info : BOOLEAN, subtitle : Kanal2Subtitles, streams : Kanal2StreamLists]

\* The session answer: reason (None: no such key), and session (None: no session id)
Kanal2Sessions == [reason : {None, "OK", "DENIED"}, session : {None, "sid1"}]
NoSession == [reason |-> None, session |-> None]

Kanal2Locals ==
    [video_id |-> "", answered |-> FALSE, subtitle |-> "", streams |-> <<>>,
     sessioned |-> FALSE, session |-> NoSession]

StartKanal2(id) ==
    /\ op = "idle"
    /\ op' = "kanal2"
    /\ self' = NoInstance
    /\ pc' = "playlist"
    /\ log' = <<>>
    /\ result' = NoResult
    /\ loc' = [Kanal2Locals EXCEPT !.video_id = id]
    /\ UNCHANGED <<class_authenticated, inst_authenticated, login_attempt, exc>>

\* playlist = self.get_playlist(video_id); 'title': self.get_title(playlist.get('info'))
Kanal2GetPlaylist ==
    /\ op = "kanal2" /\ pc = "playlist"
    /\ \/ \E f \in HTTPFailures :
            DownloadFailed(TRUE, RequestWith("playlist", loc.video_id, OutcomeOf(f)),
                           RequestError("Unable to download JSON metadata", f), "done", loc)
       \/ \E playlist \in Kanal2Playlists :
            /\ log' = Append(log, RequestWith("playlist", loc.video_id, "ok"))
            /\ IF ~playlist.has_info
               THEN /\ result' = Raised(Err("TypeError", "none", 0, FALSE, <<"info">>))
                    /\ pc' = "done"
                    /\ UNCHANGED loc
               ELSE /\ loc' = [loc EXCEPT !.answered = TRUE,
                                          !.subtitle = playlist.subtitle,
                                          !.streams = playlist.streams]
                    /\ pc' = "session"
                    /\ UNCHANGED result
    /\ UNCHANGED <<class_authenticated, inst_authenticated, op, self, login_attempt, exc>>

\* url_or_none(file + '&s=' + sid): the string when it opens like a URL
\* (scheme://), None (here <<>>) otherwise
Kanal2UrlOrNone(file, sid) ==
    IF file \in { "https://f1?a=1" } THEN <<file, "&s=", sid>> ELSE <<>>

\* Every stream given an entry, with or without a file.
RECURSIVE Kanal2Formats_NoSkip(_, _)
Kanal2Formats_NoSkip(streams, sid) ==
    IF streams = <<>> THEN <<>>
    ELSE <<[protocol |-> "m3u8", ext |-> "mp4", url |-> Kanal2UrlOrNone(Head(streams), sid)]>>
         \o Kanal2Formats_NoSkip(Tail(streams), sid)

\* The loop of get_formats: one entry per stream with a file, in stream order
RECURSIVE Kanal2Formats(_, _)
Kanal2Formats(streams, sid) ==
    IF streams = <<>> THEN <<>>
    ELSE IF Head(streams) = "" THEN Kanal2Formats(Tail(streams), sid)
    ELSE <<[protocol |-> "m3u8", ext |-> "mp4", url |-> Kanal2UrlOrNone(Head(streams), sid)]>>
         \o Kanal2Formats(Tail(streams), sid)

\* self._sort_formats(formats): a stable sort on the format fields, which are
\* the same (protocol, ext) for every entry built here
Kanal2SortFormats(formats) == formats

\* get_timestamp(subtitle): "ok" when there is no date or strptime parses it,
\* "ValueError" when the date matches SUBTITLE_DATE_RE and strptime rejects it
Kanal2Timestamp(subtitle) ==
    IF subtitle = "Osa 53  (45.08.2016 20:00)" THEN "ValueError" ELSE "ok"

\* get_formats: session = self.get_session(...) with the reason test, the loop
\* (file + '&s=' + sid raises TypeError when sid is None), the sort; then
\* get_timestamp, and the info dict is returned
Kanal2GetFormats ==
    /\ op = "kanal2" /\ pc = "session"
    /\ \/ \E f \in HTTPFailures :
            DownloadFailed(TRUE, Request("session", OutcomeOf(f)),
                           RequestError("Error creating session", f), "done", loc)
       \/ \E session \in Kanal2Sessions :
            /\ log' = Append(log, Request("session", "ok"))
            /\ result' =
                 IF session.reason = None
                 THEN Raised(Err("KeyError", "none", 0, FALSE, <<"reason">>))
                 ELSE IF session.reason # "OK"
                 THEN Raised(Err("ExtractorError", "none", 0, FALSE,
                                 <<"Unable to obtain session">>))
                 ELSE IF session.session = None /\ \E i \in DOMAIN loc.streams :
                                                      loc.streams[i] # ""
                 THEN Raised(Err("TypeError", "none", 0, FALSE, <<"str + None">>))
                 ELSE IF Kanal2Timestamp(loc.subtitle) # "ok"
                 THEN Raised(Err("ValueError", "none", 0, FALSE, <<"strptime">>))
                 ELSE Returned([id |-> loc.video_id,
                                formats |-> Kanal2SortFormats(
                                    Kanal2Formats(loc.streams, session.session))])
            /\ pc' = "done"
            /\ loc' = [loc EXCEPT !.sessioned = TRUE, !.session = session]
    /\ UNCHANGED <<class_authenticated, inst_authenticated, op, self, login_attempt, exc>>

--------------------------------------------------------------------------
\* The caller takes the operation's result; the extractor is idle again.
Finish ==
    /\ op # "idle" /\ pc = "done"
    /\ op' = "idle"
    /\ self' = NoInstance
    /\ pc' = "idle"
    /\ log' = <<>>
    /\ result' = NoResult
    /\ login_attempt' = 0
    /\ exc' = NoError
    /\ loc' = NoLocals
    /\ UNCHANGED <<class_authenticated, inst_authenticated>>

Init ==
    /\ class_authenticated = FALSE
    /\ inst_authenticated = [i \in Instances |-> Unset]
    /\ op = "idle"
    /\ self = NoInstance
    /\ pc = "idle"
    /\ log = <<>>
    /\ result = NoResult
    /\ login_attempt = 0
    /\ exc = NoError
    /\ loc = NoLocals

Next ==
    \/ \E i \in Instances : StartLogin(i)
    \/ GigyaLogin
    \/ LoginWhile
    \/ RequestXSRF
    \/ BuildPostData
    \/ PerformLoginPost
    \/ LoginExcept
    \/ LoginAfterLoop
    \/ \E i \in Instances : StartVRTExtract(i)
    \/ DownloadAssetJSON
    \/ RefreshToken
    \/ PlayerToken
    \/ MediaItems
    \/ VRTTarget
    \/ VRTReturn
    \/ \E url \in JTBCUrls : StartJTBC(url)
    \/ JTBCWebpage
    \/ JTBCMetadata
    \/ JTBCPlayback
    \/ JTBCStream
    \/ JTBCReturn
    \/ \E url_id \in ServusUrlIds : StartServus(url_id)
    \/ ServusVideoJSON
    \/ ServusManifest
    \/ ServusGetDescription
    \/ ServusReturn
    \/ \E id \in ManotoIds : StartManoto(id)
    \/ ManotoEpisodeJSON
    \/ ManotoFormats
    \/ StartManotoLive
    \/ ManotoLiveJSON
    \/ ManotoLiveFormats
    \/ \E id \in ManotoIds : StartManotoShow(id)
    \/ ManotoShowDownload
    \/ \E id \in JTBCProgramIds : StartJTBCProgram(id)
    \/ JTBCProgramDownload
    \/ \E id \in Kanal2Ids : StartKanal2(id)
    \/ Kanal2GetPlaylist
    \/ Kanal2GetFormats
    \/ Finish

Spec == Init /\ [][Next]_vars

--------------------------------------------------------------------------
\* Properties of VRTIE._perform_login

IsAttempt(e) == e.kind = "request" /\ e.what = "xsrf"
IsLoginRequest(e) == e.kind = "request" /\ e.what \in {"xsrf", "perform_login"}
Is401(e) == IsLoginRequest(e) /\ e.out = "http401"
AttemptsMade == Cardinality({ i \in DOMAIN log : IsAttempt(log[i]) })
AuthFailures == Cardinality({ i \in DOMAIN log : Is401(log[i]) })
InLogin == op = "vrt_login"

\* C1: after a Gigya login without errorDetails, at most three attempts (XSRF
\* request, then the perform_login POST) are made; an attempt after the first
\* starts only right after the previous one failed with HTTP 401; and each 401
\* failure is followed by exactly one warning and then exactly one pause of
\* one second before any other request, warning or pause.
C1_RetryAtMostThree ==
    InLogin =>
      /\ AttemptsMade <= 3
      /\ \A i \in DOMAIN log :
           /\ IsAttempt(log[i]) =>
                \/ i = 2 /\ log[1] = Request("gigya", "ok")
                \/ /\ i >= 5
                   /\ Is401(log[i - 3])
                   /\ log[i - 2].kind = "warning"
                   /\ log[i - 1] = Sleep(1)
           /\ (log[i].kind = "request" /\ log[i].what = "perform_login") =>
                i > 1 /\ log[i - 1] = Request("xsrf", "ok")
           /\ Is401(log[i]) =>
                /\ i + 1 <= Len(log) => log[i + 1].kind = "warning"
                /\ i + 2 <= Len(log) => log[i + 2] = Sleep(1)
                /\ i + 3 <= Len(log) => log[i + 3].kind = "request"
                /\ pc # "except" => i + 2 <= Len(log)
           /\ log[i].kind = "warning" => i > 1 /\ Is401(log[i - 1])
           /\ log[i].kind = "sleep" => i > 1 /\ log[i - 1].kind = "warning"

\* Three attempts were made, the first two failed with 401 and were each
\* followed by a warning and a pause, and the call has ended.
C1_Witness ==
    /\ InLogin /\ pc = "done"
    /\ AttemptsMade = 3
    /\ AuthFailures >= 2
    /\ Len(log) >= 8

\* C2: when all three attempts fail with HTTP 401, _perform_login ends by
\* raising an error.
C2_ThreeFailuresRaise ==
    (InLogin /\ pc = "done" /\ AuthFailures = 3) => result.kind = "raised"

\* C3: a failure of the XSRF request or of the perform_login POST that is not
\* an HTTP 401 is re-raised at once: the call ends with that same error, with
\* no further request, warning or pause, and the authentication flag of every
\* instance is left as it was; within a login call the flag changes only in
\* the step that returns normally.
C3_ReraiseStep ==
    (InLogin /\ pc = "except" /\ ~(exc.cause = "HTTPError" /\ exc.code = 401)) =>
        /\ pc' = "done"
        /\ result' = Raised(exc)
        /\ exc.type = "ExtractorError"
        /\ log' = log
        /\ log[Len(log)].out = "failed"
        /\ \A i \in Instances : Authenticated(i)' = Authenticated(i)

C3_FlagStep ==
    (InLogin /\ \E i \in Instances : Authenticated(i)' # Authenticated(i)) =>
        result'.kind = "returned"

C3_OtherFailuresPropagate == [][C3_ReraiseStep /\ C3_FlagStep]_vars

\* A perform_login POST failed with HTTP 403 and the call ended with that error.
C3_Witness ==
    /\ InLogin /\ pc = "done"
    /\ result.kind = "raised"
    /\ result.error.cause = "HTTPError" /\ result.error.code = 403
    /\ log[Len(log)] = Request("perform_login", "failed")
    /\ \A i \in Instances : ~Authenticated(i)

--------------------------------------------------------------------------
\* Properties of the extractions

IsFailedFetch(e) == e.kind = "request" /\ e.out # "ok"
Extracting == op \notin {"idle", "vrt_login"}

\* C4 as stated: outside the login retry, no extraction returns a record after
\* one of its fetches failed; every failed fetch ends it with an error.
C4_EveryFailedFetchAborts ==
    (Extracting /\ pc = "done" /\ \E i \in DOMAIN log : IsFailedFetch(log[i])) =>
        result.kind = "raised"

\* The fetches the extractors make with fatal=False
MadeNonFatal(o, e) ==
    \/ o = "vrt_extract" /\ e.what = "manifest"
    \/ o = "jtbc" /\ e.what \in {"metadata", "manifest"}
    \/ o = "servus" /\ e.what = "description"

\* C4 (amended): outside the login retry, a failed fetch ends the extraction
\* at once with the download error raised to the caller, unless the fetch is
\* one made with fatal=False (JTBC metadata, JTBC HLS manifests, Servus
\* description, VRT manifests): the failure of such a fetch is reported as a
\* warning and the extraction goes on.
C4_FatalFetchesAbort ==
    Extracting =>
      \A i \in DOMAIN log :
        IsFailedFetch(log[i]) =>
          IF MadeNonFatal(op, log[i])
          THEN /\ i < Len(log)
               /\ log[i + 1].kind = "warning"
          ELSE /\ i = Len(log)
               /\ pc = "done"
               /\ result.kind = "raised"
               /\ result.error.type = "ExtractorError"
               /\ result.error.cause \in {"HTTPError", "URLError"}

\* JTBC returned a record although its metadata fetch had failed.
C4_Witness ==
    /\ op = "jtbc" /\ pc = "done"
    /\ result.kind = "returned"
    /\ \E i \in DOMAIN log : IsFailedFetch(log[i]) /\ log[i].what = "metadata"

\* C5: Servus, no videoUrl and playabilityErrors holding only NOT_YET_AVAILABLE
\* (with a currentSunrise to name): a warning is reported and the extraction
\* does not end with an error.
C5_NotYetAvailableNotFatal ==
    ( /\ op = "servus" /\ pc = "done" /\ loc.answered
      /\ ~loc.video.has_videoUrl
      /\ loc.video.has_errors
      /\ loc.video.playabilityErrors # <<>>
      /\ \A i \in DOMAIN loc.video.playabilityErrors :
           loc.video.playabilityErrors[i] = "NOT_YET_AVAILABLE"
      /\ loc.video.currentSunrise # None )
    => /\ \E i \in DOMAIN log :
            log[i].kind = "warning" /\ log[i].arg = loc.video.currentSunrise
       /\ result.kind # "raised"

\* C6: Servus, no videoUrl and FSK_BLOCKED (first among the playability errors)
\* whose details carry minEveningHour and maxMorningHour: the extraction ends
\* with an expected ExtractorError whose message names both hours.
C6_FSKBlockedExpectedError ==
    ( /\ op = "servus" /\ pc = "done" /\ loc.answered
      /\ ~loc.video.has_videoUrl
      /\ loc.video.has_errors
      /\ loc.video.playabilityErrors # <<>>
      /\ loc.video.playabilityErrors[1] = "FSK_BLOCKED"
      /\ loc.video.has_details
      /\ loc.video.minEveningHour # None
      /\ loc.video.maxMorningHour # None )
    => /\ result.kind = "raised"
       /\ result.error.type = "ExtractorError"
       /\ result.error.expected
       /\ result.error.msg =
            <<"Only playable from ", loc.video.minEveningHour, ":00 to ",
              loc.video.maxMorningHour, ":00">>

NoManifestFetched == \A i \in DOMAIN log : log[i].what # "manifest"

\* C7: VRT, media-items answer without title: AUTHENTICATION_REQUIRED ends the
\* extraction with the login-required error, INVALID_LOCATION with the
\* geo-restriction error carrying exactly the countries <<"BE">>, any other
\* code with an expected ExtractorError whose message is the answer's message,
\* or the code when the message is missing or empty; no record is returned and
\* no manifest is fetched.
C7_NoTitleErrors ==
    (op = "vrt_extract" /\ pc = "done" /\ loc.answered /\ ~loc.video_info.has_title) =>
        LET code == loc.video_info.code
            message == loc.video_info.message
            e == result.error
        IN /\ result.kind = "raised"
           /\ result.record = NoRecord
           /\ NoManifestFetched
           /\ e.expected
           /\ code = "AUTHENTICATION_REQUIRED" =>
                e.type = "ExtractorError" /\ e.msg = <<"login_required">>
           /\ code = "INVALID_LOCATION" =>
                e.type = "GeoRestrictedError" /\ e.countries = <<"BE">>
           /\ code \notin {"AUTHENTICATION_REQUIRED", "INVALID_LOCATION"} =>
                /\ e.type = "ExtractorError"
                /\ e.countries = <<>>
                /\ e.msg = <<IF message \in {None, ""} THEN code ELSE message>>

\* An answer with code INVALID_LOCATION ended the extraction geo-restricted to BE.
C7_Witness ==
    /\ op = "vrt_extract" /\ pc = "done" /\ loc.answered
    /\ ~loc.video_info.has_title
    /\ loc.video_info.code = "INVALID_LOCATION"
    /\ loc.video_info.message = "Video not found"
    /\ result.error.countries = <<"BE">>

C8_FlagStep ==
    \A i \in Instances :
        Authenticated(i)' # Authenticated(i) =>
            /\ op = "vrt_login" /\ self = i
            /\ Authenticated(i)'
            /\ \A j \in Instances \ {i} : Authenticated(j)' = Authenticated(j)

\* C8: the authentication flag of every VRTIE instance starts False; it is
\* changed only by _perform_login, and only on the instance the login runs on;
\* every _real_extract, and a login on another instance, leave it as it was.
C8_FlagPerInstance ==
    /\ \A i \in Instances : ~Authenticated(i)
    /\ [][C8_FlagStep]_vars

\* Instance 1 is logged in, instance 2 is not, and an extraction on instance 2
\* has run to a returned record.
C8_Witness ==
    /\ Authenticated(1) /\ ~Authenticated(2)
    /\ op = "vrt_extract" /\ self = 2 /\ pc = "done"
    /\ result.kind = "returned"

ManotoFieldsRead(details) ==
    /\ details.analyticsSeasonNumber # None
    /\ details.episodeNumber # None
    /\ details.durationInMinutes # None

Range(f) == { f[i] : i \in DOMAIN f }

\* C10: a record JTBCIE returns has as id the ep.../vo... segment of the URL
\* (not the VO file id of the page); with s the broadcastDate without its
\* dots, release_date is the first eight characters of s when s has at least
\* eight characters and these are digits, and the record has no release_date
\* otherwise (no metadata, no broadcastDate, or no eight leading digits).
C10_IdAndReleaseDate ==
    (op = "jtbc" /\ pc = "done" /\ result.kind = "returned") =>
        LET r == result.record
            bd == loc.metadata.broadcastDate
            s == IF bd = <<>> THEN <<>> ELSE SelectSeq(bd[1], LAMBDA c : c # ".")
            dated == /\ loc.metadata.ok /\ bd # <<>>
                     /\ Len(s) >= 8
                     /\ \A i \in 1..8 : s[i] \in Digits
        IN /\ r.id \in {"ep20216321", "vo10721270"}
           /\ r.id \in Range(loc.url)
           /\ r.id # loc.file_id
           /\ dated => /\ "release_date" \in DOMAIN r
                       /\ r.release_date = [i \in 1..8 |-> s[i]]
           /\ ~dated => "release_date" \notin DOMAIN r

\* A record was returned whose release_date comes from a dotted broadcastDate.
C10_Witness ==
    /\ op = "jtbc" /\ pc = "done" /\ result.kind = "returned"
    /\ "release_date" \in DOMAIN result.record
    /\ loc.metadata.broadcastDate = << <<"2", "0", "2", "3", ".", "1", "0", ".", "0", "8">> >>
    /\ result.record.release_date = <<"2", "0", "2", "3", "1", "0", "0", "8">>

LowerCase == { "a", "b", "c" }
UpperOf == [c \in LowerCase |-> IF c = "a" THEN "A" ELSE IF c = "b" THEN "B" ELSE "C"]

\* x is y with each lower-case letter replaced by its capital, the rest kept
IsUpperCased(x, y) ==
    /\ Len(x) = Len(y)
    /\ \A i \in DOMAIN y :
         x[i] = (IF y[i] \in LowerCase THEN UpperOf[y[i]] ELSE y[i])

\* C11: in ServusIE._real_extract the identifier of the URL, upper-cased, is
\* the identifier sent in the player API request and in the description
\* request and the id of the returned record; upper-casing that value again
\* changes nothing.
C11_UpperCasedId ==
    op = "servus" =>
      /\ IsUpperCased(loc.video_id, loc.url_id)
      /\ UpperStr(loc.video_id) = loc.video_id
      /\ \A i \in DOMAIN log :
           (log[i].kind = "request" /\ log[i].what \in {"video_json", "description"}) =>
               IsUpperCased(log[i].arg, loc.url_id)
      /\ (pc = "done" /\ result.kind = "returned") =>
           /\ IsUpperCased(result.record.id, loc.url_id)
           /\ \E i, j \in DOMAIN log :
                /\ i < j
                /\ log[i].what = "video_json" /\ log[i].arg = result.record.id
                /\ log[j].what = "description" /\ log[j].arg = result.record.id

\* A lower-case URL identifier gave a record whose id is its upper-case form.
C11_Witness ==
    /\ op = "servus" /\ pc = "done" /\ result.kind = "returned"
    /\ loc.url_id = <<"a", "a", "-", "2", "b">>
    /\ result.record.id = <<"A", "A", "-", "2", "B">>

TokenRequests == { "asset_json", "refreshtoken", "tokens", "media_items" }

\* C12: VRTIE._real_extract issues its token requests one after the other, each
\* only after the one before it was answered: asset JSON, refresh-token,
\* player-token, media-items, all before any manifest. The refresh-token
\* request is issued if and only if the instance's flag is True; the
\* identityToken of the player-token request is the empty string when the flag
\* is False and the vrtnutoken the refresh-token request returned when it is True.
C12_RequestOrder ==
    op = "vrt_extract" =>
      LET reqs == SelectSeq(log, LAMBDA e : e.kind = "request" /\ e.what \in TokenRequests)
          expected == IF Authenticated(self)
                      THEN <<"asset_json", "refreshtoken", "tokens", "media_items">>
                      ELSE <<"asset_json", "tokens", "media_items">>
      IN /\ Len(reqs) <= Len(expected)
         /\ \A k \in DOMAIN reqs :
              /\ reqs[k].what = expected[k]
              /\ k < Len(reqs) => reqs[k].out = "ok"
              /\ log[k] = reqs[k]
         /\ \A i \in DOMAIN log :
              log[i].what = "manifest" => i > Len(expected) /\ Len(reqs) = Len(expected)
         /\ \A k \in DOMAIN reqs :
              reqs[k].what = "tokens" =>
                IF Authenticated(self)
                THEN reqs[k].arg \in NuTokens /\ reqs[k].arg = loc.vrtnutoken
                ELSE reqs[k].arg = ""
         /\ (pc \in {"media_items", "targets"} \/ loc.answered) =>
              ((\E i \in DOMAIN log : log[i].what = "refreshtoken") <=> Authenticated(self))

\* An authenticated instance refreshed its token and sent it as identityToken;
\* the extraction returned a record.
C12_Witness ==
    /\ op = "vrt_extract" /\ pc = "done" /\ result.kind = "returned"
    /\ Authenticated(self)
    /\ Len(log) >= 4
    /\ log[2] = Request("refreshtoken", "ok")
    /\ log[3] = RequestWith("tokens", "nu-token-1", "ok")

\* An instance that never logged in sent the empty identityToken.
C12_WitnessAnonymous ==
    /\ op = "vrt_extract" /\ pc = "done" /\ result.kind = "returned"
    /\ ~Authenticated(self)
    /\ log[2] = RequestWith("tokens", "", "ok")

SessionRequests == { i \in DOMAIN log : log[i].kind = "request" /\ log[i].what = "session" }
FilesOf(streams) == SelectSeq(streams, LAMBDA f : f # "")

C14_FlagStep ==
    \A i \in Instances :
        (~Authenticated(i) /\ Authenticated(i)') =>
            /\ InLogin /\ self = i
            /\ \E k \in DOMAIN log : log[k] = Request("perform_login", "ok")
C14_FlagOnlyAfterSuccessfulPost == [][C14_FlagStep]_vars

\* C15: when the Gigya login result carries a non-empty errorDetails, the
\* login call ends with an expected ExtractorError carrying that text, the
\* Gigya request being the only entry of its log (no XSRF request, no
\* perform_login POST, no warning, no pause), no attempt is counted, and the
\* authentication flag of every instance is as it was before the call.
C15_ErrorDetailsStep ==
    /\ (InLogin' /\ loc'.answered /\ loc'.errorDetails = "text") =>
          /\ pc' = "done"
          /\ result' = Raised(Err("ExtractorError", "none", 0, TRUE,
                                  <<"Unable to login: VrtNU said: ", "text">>))
          /\ log' = <<Request("gigya", "ok")>>
          /\ login_attempt' = 0
          /\ UNCHANGED <<class_authenticated, inst_authenticated>>
    /\ (InLogin /\ loc.answered /\ loc.errorDetails = "text") =>
          UNCHANGED <<class_authenticated, inst_authenticated>>
C15_ErrorDetailsRaiseFirst == [][C15_ErrorDetailsStep]_vars

\* A login call ended on the errorDetails of the Gigya answer, the flag False.
C15_Witness ==
    /\ InLogin /\ pc = "done"
    /\ loc.answered /\ loc.errorDetails = "text"
    /\ result.kind = "raised" /\ result.error.expected
    /\ ~Authenticated(self)

====
